---- MODULE Spec2Model ----
(***************************************************************************)
(* Model of the graph-translation converters of DelphesSimulation          *)
(* (Sim/SimDelphesInterface/src/DelphesSimulation.cpp): ConvertMCParticles, *)
(* ConvertTracks, ConvertTowers, ConvertJets with findJetPartMC, and       *)
(* ConvertMET.  Every converter is a loop over an input array; an action   *)
(* of the model is one iteration of such a loop (or one step of the        *)
(* recursive resolver), and the body of the iteration is an operator so    *)
(* that a whole run can also be evaluated on another input.                *)
(***************************************************************************)
EXTENDS Integers, Sequences, FiniteSets, TLC

VARIABLES
  pc,                 \* position of the running converter
  allPart,            \* m_allPartOutArray: candidate j |-> [M1, M2, D1, D2, Position]
  primary1Daughters,  \* std::set<int> primary1Daughters
  primary2Daughters,  \* std::set<int> primary2Daughters
  mc,                 \* locals and outputs of ConvertMCParticles
  pool,               \* the engine's candidates: handle |-> [UniqueID, Candidates]
  Input,              \* the array handed to a converter (handles, or MET values)
  InputSHT,           \* the scalar-sum array handed to ConvertMET
  nGen,               \* colMCParticles->size()
  cv,                 \* locals and outputs of the running reconstruction converter
  ex                  \* execute(): the component's members, the input and the event store

mcVars == <<allPart, primary1Daughters, primary2Daughters, mc>>

recVars == <<pool, Input, InputSHT, nGen, cv, ex>>

vars == <<pc, allPart, primary1Daughters, primary2Daughters, mc,
          pool, Input, InputSHT, nGen, cv, ex>>

(***************************************************************************)
(* Bounds of the model.                                                    *)
(***************************************************************************)
MaxCand == 4     \* candidates of the full candidate array
MaxVtx == 2      \* physical production/decay points of an event
MaxObj == 4      \* candidates of the engine reachable from a reconstruction array
MaxEntries == 2  \* entries of a track, tower or jet array
MaxDepth == 6    \* frames the call stack of findJetPartMC can hold
MaxMET == 3      \* entries of the missing-energy and of the scalar-sum array
MaxPt == 1       \* largest transverse momentum of a MET or scalar-sum entry
MaxEvents == 2   \* events of the input of a run
MaxUnnumbered == 3  \* candidates of a pool that may hold an unnumbered one

(***************************************************************************)
(* Helpers.                                                                *)
(***************************************************************************)
Range(f) == {f[x] : x \in DOMAIN f}

SetMin(S) == CHOOSE x \in S : \A y \in S : x <= y

SetMax(S) == CHOOSE x \in S : \A y \in S : x >= y

IsInterval(S) == IF S = {} THEN TRUE ELSE S = SetMin(S)..SetMax(S)

\* the value of ex while a converter is followed on its own
NotExecuting == [phase |-> "converter"]

(***************************************************************************)
(* The candidate graph of one event, as the reader hands it over.  An      *)
(* event is a set of physical points; candidate c is produced at point     *)
(* prod[c] (0: none, a colliding particle) and decays at point dec[c]      *)
(* (0: none, a stable particle).  The parent range [M1,M2] of c holds the  *)
(* candidates decaying where c is produced, the child range [D1,D2] the    *)
(* candidates produced where c decays; Position is the production point.   *)
(* Index order is free: children may precede their parents.                *)
(***************************************************************************)
Parents(prod, dec, c) ==
  IF prod[c] = 0 THEN {} ELSE {p \in DOMAIN dec : dec[p] = prod[c]}

Children(prod, dec, p) ==
  IF dec[p] = 0 THEN {} ELSE {c \in DOMAIN prod : prod[c] = dec[p]}

RECURSIVE Ancestors(_, _, _, _)
Ancestors(prod, dec, S, k) ==
  IF k = 0 THEN S
  ELSE LET up == UNION {Parents(prod, dec, c) : c \in S}
       IN  Ancestors(prod, dec, S \cup up, k - 1)

\* position of the first mention of point v in prod[0], dec[0], prod[1], ...
FirstUse(n, prod, dec, v) ==
  LET uses == {2 * c : c \in {x \in 0..(n-1) : prod[x] = v}}
              \cup {2 * c + 1 : c \in {x \in 0..(n-1) : dec[x] = v}}
  IN  IF uses = {} THEN 2 * n ELSE SetMin(uses)

\* points are numbered in the order of their first mention (one numbering
\* per event: the numbers only tell the points apart)
CanonicalPoints(n, prod, dec) ==
  \A v \in 2..MaxVtx :
     FirstUse(n, prod, dec, v) < 2 * n =>
        FirstUse(n, prod, dec, v - 1) < FirstUse(n, prod, dec, v)

WellFormedEvent(n, prod, dec) ==
  /\ CanonicalPoints(n, prod, dec)
  /\ \A c \in 0..(n-1) :
       /\ prod[c] = 0 \/ prod[c] # dec[c]
       /\ IsInterval(Parents(prod, dec, c))
       /\ IsInterval(Children(prod, dec, c))
       /\ c \notin Ancestors(prod, dec, Parents(prod, dec, c), n)

(***************************************************************************)
(* The reader's known defect (LHE input): the link of a first-generation   *)
(* daughter to the second colliding particle may be lost (its parent range *)
(* lists index 0 only), and the child range upper bound of a colliding     *)
(* particle may be wrong (too small: D2 = D1, or too large: the last       *)
(* index of the array).                                                    *)
(***************************************************************************)
LostParent(n, prod, dec) ==
  {c \in 0..(n-1) : /\ Parents(prod, dec, c) = {0, 1}
                    /\ prod[0] = 0
                    /\ prod[1] = 0}

MkCandidate(prod, dec, c, lost, brokenD2) ==
  LET P == Parents(prod, dec, c)
      K == Children(prod, dec, c)
  IN  [M1 |-> IF P = {} THEN -1 ELSE SetMin(P),
       M2 |-> IF P = {} THEN -1 ELSE IF c \in lost THEN SetMin(P) ELSE SetMax(P),
       D1 |-> IF K = {} THEN -1 ELSE SetMin(K),
       D2 |-> IF K = {} THEN -1
              ELSE IF P # {} \/ brokenD2 = "ok" THEN SetMax(K)
              ELSE IF brokenD2 = "low" THEN SetMin(K)
              ELSE SetMax(DOMAIN prod),
       Position |-> prod[c]]

NoCandidates == [c \in {} |-> 0]

GetEntries(array) == Cardinality(DOMAIN array)

MothersOf(Inp, c) == IF Inp[c].M1 = -1 THEN {} ELSE Inp[c].M1 .. Inp[c].M2

DaughtersOf(Inp, p) == IF Inp[p].D1 = -1 THEN {} ELSE Inp[p].D1 .. Inp[p].D2

\* parent ranges and child ranges name each other
Consistent(Inp) ==
  \A c \in DOMAIN Inp, p \in DOMAIN Inp :
     (p \in MothersOf(Inp, c)) <=> (c \in DaughtersOf(Inp, p))

(***************************************************************************)
(* ConvertMCParticles.  st is the converter's state between two            *)
(* iterations of the main loop:                                            *)
(*   j          loop index                                                 *)
(*   vec        vecPartProdVtxIDDecVtxID, pairs [first, second]            *)
(*   particles  colMCParticles: j |-> [Bits, Vertex, StartVertex,          *)
(*              EndVertex], Vertex being the candidate's position and a    *)
(*              vertex being its index in colGenVertices, -1: not set      *)
(*   vertices   colGenVertices: index |-> [Position, origin]               *)
(*   fault      colMCParticles->at() was called past the collection        *)
(***************************************************************************)
NoVertex == -1

MCStart(Inp) ==
  [j |-> 0,
   vec |-> [c \in DOMAIN Inp |-> [first |-> -1, second |-> -1]],
   particles |-> NoCandidates,
   vertices |-> NoCandidates,
   fault |-> FALSE]

\* faulty variant: the daughters are read from the beam's declared child range
PrimaryDaughtersDeclared(Inp, beam) ==
  IF beam \in DOMAIN Inp THEN DaughtersOf(Inp, beam) ELSE {}

\* the pre-pass: the candidates whose own parent range includes the beam
PrimaryDaughters(Inp, beam) ==
  {c \in DOMAIN Inp : Inp[c].M1 # -1 /\ beam \in Inp[c].M1 .. Inp[c].M2}

\* faulty variant: the child range is tested before the parent range
StatusBitsChildFirst(cand) ==
  IF cand.D1 = -1 THEN "kStable"
  ELSE IF cand.M1 = -1 THEN "kBeam"
  ELSE "kDecayed"

StatusBits(cand) ==
  IF cand.M1 = -1 THEN "kBeam"
  ELSE IF cand.D1 = -1 THEN "kStable"
  ELSE "kDecayed"

Extend(f, x) == [i \in 0..GetEntries(f) |-> IF i = GetEntries(f) THEN x ELSE f[i]]

\* faulty variant: the candidate is taken from the other end of the array
CreateParticleFromLast(Inp, st) ==
  LET cand == Inp[GetEntries(Inp) - 1 - st.j]
  IN  [st EXCEPT !.particles =
         Extend(@, [Bits |-> StatusBits(cand), Vertex |-> cand.Position,
                    StartVertex |-> NoVertex, EndVertex |-> NoVertex])]

\* colMCParticles->create() and the core copied from candidate j
CreateParticle(Inp, st) ==
  LET cand == Inp[st.j]
  IN  [st EXCEPT !.particles =
         Extend(@, [Bits |-> StatusBits(cand), Vertex |-> cand.Position,
                    StartVertex |-> NoVertex, EndVertex |-> NoVertex])]

\* colMCParticles->at(i).EndVertex() and .StartVertex()
EndVertexAt(st, i) ==
  IF i \in DOMAIN st.particles THEN st.particles[i].EndVertex ELSE NoVertex

StartVertexAt(st, i) ==
  IF i \in DOMAIN st.particles THEN st.particles[i].StartVertex ELSE NoVertex

\* the point a new production vertex is created at
ProductionPoint(Inp, j) == Inp[j].Position

\* faulty variant: the decay vertex placed at the decaying candidate's own position
DecayPointOwn(Inp, j) == Inp[j].Position

\* the point a new decay vertex is created at
DecayPoint(Inp, j) == Inp[Inp[j].D1].Position

\* the slot value recorded after creating the own decay vertex
OwnEndSlot(Inp, j) == Inp[j].D1

\* faulty variant: the daughters' slots record the first daughter, the value
\* the candidate's own end slot gets
EndVertexOwnerFirstDaughter(Inp, j) == Inp[j].D1

\* the index written into the daughters' start slots: the candidate whose
\* end vertex they are to reuse
EndVertexOwner(Inp, j) == j

\* faulty variant: a propagation writes the slot whatever it holds
SlotFreeAlways(slot) == TRUE

\* the test in front of every propagation into a slot
SlotFree(slot) == slot = -1

ProductionVertex(Inp, st) ==
  LET j == st.j
      cand == Inp[j]
      idPartStartVertex == st.vec[j].first
      attached ==
        IF idPartStartVertex # -1
        THEN [st EXCEPT !.particles[j].StartVertex = EndVertexAt(st, idPartStartVertex),
                        !.fault = @ \/ idPartStartVertex \notin DOMAIN st.particles]
        ELSE [st EXCEPT !.vertices = Extend(@, [Position |-> ProductionPoint(Inp, j),
                                                origin |-> <<"production", j>>]),
                        !.particles[j].StartVertex = GetEntries(st.vertices),
                        !.vec[j].first = j]
  IN  IF cand.M1 = -1 THEN st
      ELSE [attached EXCEPT !.vec =
              [i \in DOMAIN @ |->
                 IF i \in cand.M1 .. cand.M2 /\ SlotFree(@[i].second)
                 THEN [@[i] EXCEPT !.second = j] ELSE @[i]]]

\* the daughters the end-vertex index is propagated to
PropagationTargets(Inp, p1, p2, j) ==
  IF Inp[j].M1 = -1
  THEN IF j = 0 THEN p1 ELSE IF j = 1 THEN p2 ELSE {}
  ELSE Inp[j].D1 .. Inp[j].D2

DecayVertex(Inp, p1, p2, st) ==
  LET j == st.j
      cand == Inp[j]
      idPartEndVertex == st.vec[j].second
      attached ==
        IF idPartEndVertex # -1
        THEN [st EXCEPT !.particles[j].EndVertex = StartVertexAt(st, idPartEndVertex),
                        !.fault = @ \/ idPartEndVertex \notin DOMAIN st.particles]
        ELSE [st EXCEPT !.vertices = Extend(@, [Position |-> DecayPoint(Inp, j),
                                                origin |-> <<"decay", j>>]),
                        !.particles[j].EndVertex = GetEntries(st.vertices),
                        !.vec[j].second = OwnEndSlot(Inp, j)]
      targets == PropagationTargets(Inp, p1, p2, j)
  IN  IF cand.D1 = -1 THEN st
      ELSE [attached EXCEPT !.vec =
              [i \in DOMAIN @ |->
                 IF i \in targets /\ i >= 0 /\ SlotFree(@[i].first)
                 THEN [@[i] EXCEPT !.first = EndVertexOwner(Inp, j)]
                 ELSE @[i]]]

\* one iteration of the main loop
ConvertMCParticlesBody(Inp, p1, p2, st) ==
  LET created == CreateParticle(Inp, st)
      produced == ProductionVertex(Inp, created)
      decayed == DecayVertex(Inp, p1, p2, produced)
  IN  [decayed EXCEPT !.j = @ + 1]

\* the whole conversion of an array
RECURSIVE MCRunFrom(_, _, _, _)
MCRunFrom(Inp, p1, p2, st) ==
  IF st.j >= GetEntries(Inp) THEN st
  ELSE MCRunFrom(Inp, p1, p2, ConvertMCParticlesBody(Inp, p1, p2, st))

MCRun(Inp) ==
  MCRunFrom(Inp, PrimaryDaughters(Inp, 0), PrimaryDaughters(Inp, 1), MCStart(Inp))

(***************************************************************************)
(* Actions of ConvertMCParticles.                                          *)
(***************************************************************************)
InitMC ==
  /\ pc = "mc_begin"
  /\ \E n \in 1..MaxCand :
       \E prod \in [0..(n-1) -> 0..MaxVtx], dec \in [0..(n-1) -> 0..MaxVtx] :
          /\ WellFormedEvent(n, prod, dec)
          /\ \E lost \in SUBSET LostParent(n, prod, dec), brokenD2 \in {"ok", "low", "high"} :
               allPart = [c \in 0..(n-1) |-> MkCandidate(prod, dec, c, lost, brokenD2)]
  /\ primary1Daughters = {}
  /\ primary2Daughters = {}
  /\ mc = MCStart(NoCandidates)
  /\ pool = <<>>
  /\ Input = <<>>
  /\ InputSHT = <<>>
  /\ nGen = 0
  /\ cv = [j |-> 0]
  /\ ex = NotExecuting

\* slot initialisation and the pre-pass over the parent ranges
MCBegin ==
  /\ pc = "mc_begin"
  /\ mc' = MCStart(allPart)
  /\ primary1Daughters' = PrimaryDaughters(allPart, 0)
  /\ primary2Daughters' = PrimaryDaughters(allPart, 1)
  /\ pc' = "mc_loop"
  /\ UNCHANGED <<allPart, recVars>>

MCLoop ==
  /\ pc = "mc_loop"
  /\ mc.j < GetEntries(allPart)
  /\ mc' = ConvertMCParticlesBody(allPart, primary1Daughters, primary2Daughters, mc)
  /\ UNCHANGED <<pc, allPart, primary1Daughters, primary2Daughters, recVars>>

MCEnd ==
  /\ pc = "mc_loop"
  /\ mc.j >= GetEntries(allPart)
  /\ pc' = "mc_done"
  /\ UNCHANGED <<mcVars, recVars>>

NextMC == MCBegin \/ MCLoop \/ MCEnd

SpecMC == InitMC /\ [][NextMC]_vars

(***************************************************************************)
(* The candidates behind a reconstruction array.  A candidate carries its  *)
(* unique identifier and the ordered list of its related candidates        *)
(* (GetCandidates()).  The relation graph is acyclic: a candidate relates  *)
(* only to candidates with a larger handle.  The candidates of gen are the *)
(* generated particles: their identifiers are 1..nGen (identifier = 1 +    *)
(* index in the generated-particle collection), all others lie above.      *)
(***************************************************************************)
RECURSIVE SortedSeq(_)
SortedSeq(S) ==
  IF S = {} THEN <<>> ELSE <<SetMin(S)>> \o SortedSeq(S \ {SetMin(S)})

Rank(S, h) == Cardinality({x \in S : x <= h})

Edges(K) == {e \in (1..K) \X (1..K) : e[1] < e[2]}

MkPool(K, gen, links) ==
  [h \in 1..K |->
     [UniqueID |-> IF h \in gen THEN Rank(gen, h)
                   ELSE Cardinality(gen) + Rank((1..K) \ gen, h),
      Candidates |-> SortedSeq({b \in 1..K : <<h, b>> \in links})]]

InitArray(start) ==
  /\ pc = start
  /\ \E gen \in SUBSET (1..MaxObj), links \in SUBSET Edges(MaxObj) :
       /\ pool = MkPool(MaxObj, gen, links)
       /\ nGen = Cardinality(gen)
       /\ ex = NotExecuting
  /\ \E n \in 1..MaxEntries : Input = [k \in 1..n |-> k]
  /\ InputSHT = <<>>
  /\ allPart = NoCandidates
  /\ primary1Daughters = {}
  /\ primary2Daughters = {}
  /\ mc = MCStart(NoCandidates)

\* Input->At(j)
At(pl, array, j) == pl[array[j + 1]]

\* refCand->GetUniqueID()-1, the index into the generated-particle collection
RefId(pl, h) == pl[h].UniqueID - 1

\* the test of an index against colMCParticles->size()
BelowSize(id, size) == id < size

(***************************************************************************)
(* ConvertTracks.  st: j, colParticles (j |-> [Bits]), asc                 *)
(* (ascColParticlesToMC, records [Rec, Sim], -1: not set), warnings.       *)
(***************************************************************************)
NotSet == -1

RecStart ==
  [j |-> 0, colParticles |-> <<>>, asc |-> <<>>, warnings |-> 0]

\* faulty variant: the index is read from the LAST related candidate
TrackRefIdLast(pl, cand) ==
  IF Len(cand.Candidates) > 0
  THEN RefId(pl, cand.Candidates[Len(cand.Candidates)]) ELSE -1

\* idRefMCPart of a track: the index of the FIRST related candidate, or -1
TrackRefId(pl, cand) ==
  IF Len(cand.Candidates) > 0 THEN RefId(pl, cand.Candidates[1]) ELSE -1

TrackMatched(pl, size, cand) ==
  /\ Len(cand.Candidates) > 0
  /\ BelowSize(TrackRefId(pl, cand), size)

\* ascColParticlesToMC->create() of line 634 and the links set on a match
TrackRelation(pl, size, j, cand) ==
  IF TrackMatched(pl, size, cand)
  THEN <<[Rec |-> j, Sim |-> TrackRefId(pl, cand)]>>
  ELSE <<[Rec |-> NotSet, Sim |-> NotSet]>>

ConvertTracksBody(pl, array, size, st) ==
  LET cand == At(pl, array, st.j)
      matched == TrackMatched(pl, size, cand)
  IN  [st EXCEPT
         !.colParticles = Append(@, [Bits |-> IF matched THEN "kMatched"
                                              ELSE "kUnmatched"]),
         !.asc = @ \o TrackRelation(pl, size, st.j, cand),
         !.warnings = IF matched THEN @ ELSE @ + 1,
         !.j = @ + 1]

InitTracks == InitArray("trk_loop") /\ cv = RecStart

TracksLoop ==
  /\ pc = "trk_loop"
  /\ cv.j < Len(Input)
  /\ cv' = ConvertTracksBody(pool, Input, nGen, cv)
  /\ UNCHANGED <<pc, mcVars, pool, Input, InputSHT, nGen, ex>>

TracksEnd ==
  /\ pc = "trk_loop"
  /\ cv.j >= Len(Input)
  /\ pc' = "trk_done"
  /\ UNCHANGED <<mcVars, recVars>>

NextTracks == TracksLoop \/ TracksEnd

SpecTracks == InitTracks /\ [][NextTracks]_vars

(***************************************************************************)
(* ConvertTowers.  The state has the shape of ConvertTracks'; Bits is not  *)
(* assigned by this converter.                                             *)
(***************************************************************************)
\* the (cluster, related candidate) links of a tower, in iteration order
RECURSIVE TowerLinksFrom(_, _, _)
TowerLinksFrom(pl, clusters, k) ==
  IF k > Len(clusters) THEN <<>>
  ELSE pl[clusters[k]].Candidates \o TowerLinksFrom(pl, clusters, k + 1)

TowerLinks(pl, cand) == TowerLinksFrom(pl, cand.Candidates, 1)

\* faulty variant: the collection stops at the first index outside the collection
RECURSIVE TowerInsertUntilMiss(_, _, _, _, _)
TowerInsertUntilMiss(pl, size, links, k, acc) ==
  IF k > Len(links) THEN acc
  ELSE IF BelowSize(RefId(pl, links[k]), size)
       THEN TowerInsertUntilMiss(pl, size, links, k + 1,
              [acc EXCEPT !.ids = @ \cup {RefId(pl, links[k])}])
       ELSE [acc EXCEPT !.warnings = @ + 1]

\* the loop over the links: idRefMCPart.insert(id), or a warning
RECURSIVE TowerInsert(_, _, _, _, _)
TowerInsert(pl, size, links, k, acc) ==
  IF k > Len(links) THEN acc
  ELSE IF BelowSize(RefId(pl, links[k]), size)
       THEN TowerInsert(pl, size, links, k + 1,
              [acc EXCEPT !.ids = @ \cup {RefId(pl, links[k])}])
       ELSE TowerInsert(pl, size, links, k + 1,
              [acc EXCEPT !.warnings = @ + 1])

\* "Save relations": one record per element of the std::set, ascending
SaveRelations(j, ids) ==
  LET order == SortedSeq(ids)
  IN  [k \in 1..Len(order) |-> [Rec |-> j, Sim |-> order[k]]]

ConvertTowersBody(pl, array, size, st) ==
  LET cand == At(pl, array, st.j)
      got == TowerInsert(pl, size, TowerLinks(pl, cand), 1,
                         [ids |-> {}, warnings |-> 0])
  IN  [st EXCEPT
         !.colParticles = Append(@, [Bits |-> "unassigned"]),
         !.asc = @ \o SaveRelations(st.j, got.ids),
         !.warnings = @ + got.warnings,
         !.j = @ + 1]

InitTowers == InitArray("twr_loop") /\ cv = RecStart

TowersLoop ==
  /\ pc = "twr_loop"
  /\ cv.j < Len(Input)
  /\ cv' = ConvertTowersBody(pool, Input, nGen, cv)
  /\ UNCHANGED <<pc, mcVars, pool, Input, InputSHT, nGen, ex>>

TowersEnd ==
  /\ pc = "twr_loop"
  /\ cv.j >= Len(Input)
  /\ pc' = "twr_done"
  /\ UNCHANGED <<mcVars, recVars>>

NextTowers == TowersLoop \/ TowersEnd

SpecTowers == InitTowers /\ [][NextTowers]_vars

(***************************************************************************)
(* findJetPartMC, as the machine executes it: a call stack of frames       *)
(* [cand, it] (the candidate of the call, the position of its loop over    *)
(* GetCandidates()), the set idRefMCPart passed by reference, and the      *)
(* warnings issued.  One step is the return of a call that found no        *)
(* relation, one iteration of the loop, or the return at the loop's end.   *)
(***************************************************************************)
Top(stack) == stack[Len(stack)]

Pop(stack) == SubSeq(stack, 1, Len(stack) - 1)

Frame(h) == [cand |-> h, it |-> 1]

\* faulty variant: an index equal to the collection size passes the test
InRangeInclusive(id, rangeMCPart) == id <= rangeMCPart

\* the test "Relation found" of the resolver
InRange(id, rangeMCPart) == id < rangeMCPart

\* faulty variant: the branch is left without a warning
NoRelationSilent(st) == [st EXCEPT !.stack = Pop(@)]

\* "Warning - no MC relation found": warn and return
NoRelation(st) ==
  [st EXCEPT !.warnings = @ + 1, !.stack = Pop(@)]

\* faulty variant: the resolver calls itself on the candidate it was given
CalleeSelf(jetPart, refCand) == jetPart

\* the candidate of the recursive call
Callee(jetPart, refCand) == refCand

\* faulty variant: a related candidate outside the range is passed over
StepBelowSkip(st, jetPart, refCand) ==
  [st EXCEPT !.stack[Len(st.stack)].it = @ + 1]

\* "Not found -> step one level below"
StepBelow(st, jetPart, refCand) ==
  [st EXCEPT !.stack = Append([@ EXCEPT ![Len(@)].it = @ + 1],
                              Frame(Callee(jetPart, refCand)))]

FrameKind(pl, rangeMCPart, st) ==
  LET top == Top(st.stack)
      rel == pl[top.cand].Candidates
  IN  IF Len(rel) = 0 THEN "norelation"
      ELSE IF top.it > Len(rel) THEN "return"
      ELSE IF InRange(RefId(pl, rel[top.it]), rangeMCPart) THEN "found"
      ELSE "below"

findJetPartMCStep(pl, rangeMCPart, st) ==
  LET top == Top(st.stack)
      rel == pl[top.cand].Candidates
      kind == FrameKind(pl, rangeMCPart, st)
  IN  IF kind = "norelation" THEN NoRelation(st)
      ELSE IF kind = "return" THEN [st EXCEPT !.stack = Pop(@)]
      ELSE IF kind = "found"
      THEN [st EXCEPT !.idRefMCPart = @ \cup {RefId(pl, rel[top.it])},
                      !.stack[Len(st.stack)].it = @ + 1]
      ELSE StepBelow(st, top.cand, rel[top.it])

\* a call of the resolver run to its return (fuel: steps left)
RECURSIVE findJetPartMCRun(_, _, _, _)
findJetPartMCRun(pl, rangeMCPart, st, fuel) ==
  IF st.stack = <<>> \/ fuel = 0 THEN st
  ELSE findJetPartMCRun(pl, rangeMCPart, findJetPartMCStep(pl, rangeMCPart, st), fuel - 1)

\* the loop of ConvertJets over the constituents of one jet
RECURSIVE ResolveFrom(_, _, _, _, _)
ResolveFrom(pl, rangeMCPart, constituents, k, st) ==
  IF k > Len(constituents) THEN st
  ELSE ResolveFrom(pl, rangeMCPart, constituents, k + 1,
         findJetPartMCRun(pl, rangeMCPart,
                          [st EXCEPT !.stack = <<Frame(constituents[k])>>],
                          3 * Len(pl) * Len(pl) + 3))

Resolve(pl, rangeMCPart, constituents) ==
  ResolveFrom(pl, rangeMCPart, constituents, 1,
              [stack |-> <<>>, idRefMCPart |-> {}, warnings |-> 0])

(***************************************************************************)
(* ConvertJets.  st: j, it (the loop over the jet's constituents), stack,  *)
(* idRefMCPart, warnings, colJets, colBTags, colTauTags,                   *)
(* ascJetsToBTags, ascJetsToTauTags, asc (ascColJetsToMC: [Rec, Sim], the  *)
(* jet and the generated particle).                                        *)
(***************************************************************************)
JetsStart ==
  [j |-> 0, it |-> 1, stack |-> <<>>, idRefMCPart |-> {}, warnings |-> 0,
   colJets |-> <<>>, colBTags |-> <<>>, colTauTags |-> <<>>,
   ascJetsToBTags |-> <<>>, ascJetsToTauTags |-> <<>>, asc |-> <<>>]

\* jet, b-tag and tau-tag of entry j with their relations; idRefMCPart emptied
CreateJet(st) ==
  [st EXCEPT !.colJets = Append(@, [Area |-> -1]),
             !.colBTags = Append(@, [Value |-> <<"BTag", st.j>>]),
             !.colTauTags = Append(@, [Value |-> <<"TauTag", st.j>>]),
             !.ascJetsToBTags = Append(@, [Jet |-> st.j, Tag |-> Len(st.colBTags)]),
             !.ascJetsToTauTags = Append(@, [Jet |-> st.j, Tag |-> Len(st.colTauTags)]),
             !.idRefMCPart = {},
             !.it = 1]

InitJets == InitArray("jet_loop") /\ cv = JetsStart

JetsLoop ==
  /\ pc = "jet_loop"
  /\ cv.j < Len(Input)
  /\ cv' = CreateJet(cv)
  /\ pc' = "jet_constituents"
  /\ UNCHANGED <<mcVars, pool, Input, InputSHT, nGen, ex>>

\* findJetPartMC(jetPart, colMCParticles->size(), idRefMCPart) is called
JetCall ==
  /\ pc = "jet_constituents"
  /\ cv.stack = <<>>
  /\ cv.it <= Len(At(pool, Input, cv.j).Candidates)
  /\ cv' = [cv EXCEPT !.stack = <<Frame(At(pool, Input, cv.j).Candidates[cv.it])>>,
                      !.it = @ + 1]
  /\ UNCHANGED <<pc, mcVars, pool, Input, InputSHT, nGen, ex>>

\* a call that finds no related candidate warns and returns
FindNoRelation ==
  /\ pc = "jet_constituents"
  /\ cv.stack # <<>>
  /\ FrameKind(pool, nGen, cv) = "norelation"
  /\ cv' = findJetPartMCStep(pool, nGen, cv)
  /\ UNCHANGED <<pc, mcVars, pool, Input, InputSHT, nGen, ex>>

\* a related candidate inside the range: its index is inserted
FindFound ==
  /\ pc = "jet_constituents"
  /\ cv.stack # <<>>
  /\ FrameKind(pool, nGen, cv) = "found"
  /\ cv' = findJetPartMCStep(pool, nGen, cv)
  /\ UNCHANGED <<pc, mcVars, pool, Input, InputSHT, nGen, ex>>

\* a related candidate outside the range: the resolver calls itself
FindBelow ==
  /\ pc = "jet_constituents"
  /\ cv.stack # <<>>
  /\ FrameKind(pool, nGen, cv) = "below"
  /\ Len(cv.stack) < MaxDepth
  /\ cv' = findJetPartMCStep(pool, nGen, cv)
  /\ UNCHANGED <<pc, mcVars, pool, Input, InputSHT, nGen, ex>>

\* the loop over the related candidates is over: the call returns
FindReturn ==
  /\ pc = "jet_constituents"
  /\ cv.stack # <<>>
  /\ FrameKind(pool, nGen, cv) = "return"
  /\ cv' = findJetPartMCStep(pool, nGen, cv)
  /\ UNCHANGED <<pc, mcVars, pool, Input, InputSHT, nGen, ex>>

\* the relations of the jet are saved, one per element of idRefMCPart
JetSave ==
  /\ pc = "jet_constituents"
  /\ cv.stack = <<>>
  /\ cv.it > Len(At(pool, Input, cv.j).Candidates)
  /\ cv' = [cv EXCEPT !.asc = @ \o SaveRelations(cv.j, cv.idRefMCPart),
                      !.j = @ + 1]
  /\ pc' = "jet_loop"
  /\ UNCHANGED <<mcVars, pool, Input, InputSHT, nGen, ex>>

JetsEnd ==
  /\ pc = "jet_loop"
  /\ cv.j >= Len(Input)
  /\ pc' = "jet_done"
  /\ UNCHANGED <<mcVars, recVars>>

NextJets ==
  \/ JetsLoop
  \/ JetCall
  \/ FindNoRelation
  \/ FindFound
  \/ FindBelow
  \/ FindReturn
  \/ JetSave
  \/ JetsEnd

SpecJets == InitJets /\ [][NextJets]_vars

\* the converter is not suspended: a step that can be taken is taken
SpecJetsFair == SpecJets /\ WF_vars(NextJets)

(***************************************************************************)
(* ConvertJets on a pool in which one candidate outside the generated      *)
(* particles may carry identifier 0, the value GetUniqueID() returns for   *)
(* an object that was never given an identifier (z = 0: every candidate    *)
(* is numbered).  GetUniqueID()-1 of such a candidate is -1 as an int.     *)
(***************************************************************************)
MkPoolUnnumbered(K, gen, links, z) ==
  [h \in 1..K |->
     IF h = z THEN [MkPool(K, gen, links)[h] EXCEPT !.UniqueID = 0]
     ELSE MkPool(K, gen, links)[h]]

InitJetsUnnumbered ==
  /\ pc = "jet_loop"
  /\ \E gen \in SUBSET (1..MaxUnnumbered),
        links \in SUBSET Edges(MaxUnnumbered) :
       \E z \in {0} \cup ((1..MaxUnnumbered) \ gen) :
          /\ pool = MkPoolUnnumbered(MaxUnnumbered, gen, links, z)
          /\ nGen = Cardinality(gen)
  /\ \E n \in 1..MaxEntries : Input = [k \in 1..n |-> k]
  /\ InputSHT = <<>>
  /\ allPart = NoCandidates
  /\ primary1Daughters = {}
  /\ primary2Daughters = {}
  /\ mc = MCStart(NoCandidates)
  /\ ex = NotExecuting
  /\ cv = JetsStart

SpecJetsUnnumbered == InitJetsUnnumbered /\ [][NextJets]_vars

(***************************************************************************)
(* ConvertMET.  The candidates of the missing-energy array carry a         *)
(* transverse momentum and an azimuth (in units of pi/2, within (-2, 2]);  *)
(* those of the scalar-sum array are read for their transverse momentum    *)
(* only.  The values are small integers, which the narrowing to the        *)
(* single-precision fields of the MET object keeps.  execute() calls the   *)
(* converter when both arrays exist, so both are arrays here, of any       *)
(* lengths.                                                                *)
(***************************************************************************)
\* the azimuth of the negated momentum: half a turn away, within (-2, 2]
NegatedPhi(phi) == IF phi + 2 > 2 THEN phi - 2 ELSE phi + 2

\* the sentinel of a scalar sum that is not saved
NoScalarSum == -1

METStart == [j |-> 0, saveSHT |-> TRUE, colMET |-> <<>>, warnings |-> 0]

\* faulty variant of SameEntries: scalar sums are kept when there are enough
EnoughEntries(InputMET, sht) == GetEntries(InputMET) <= GetEntries(sht)

\* the test of the event-wide degrade, negated: the arrays have one length
SameEntries(InputMET, sht) == GetEntries(InputMET) = GetEntries(sht)

\* the head of the converter: saveSHT and its warning
METHead(InputMET, sht, st) ==
  IF SameEntries(InputMET, sht)
    THEN [st EXCEPT !.saveSHT = TRUE]
    ELSE [st EXCEPT !.saveSHT = FALSE, !.warnings = @ + 1]

\* the body of the loop over the missing-energy array, for entry st.j
ConvertMETBody(pl, InputMET, sht, st) ==
  LET candMET == At(pl, InputMET, st.j)
      met     == [Magnitude |-> candMET.Momentum.Pt,
                  Phi       |-> NegatedPhi(candMET.Momentum.Phi),
                  ScalarSum |-> IF st.saveSHT
                                  THEN At(pl, sht, st.j).Momentum.Pt
                                  ELSE NoScalarSum]
  IN  [st EXCEPT !.j = @ + 1, !.colMET = Append(@, met)]

InitMET ==
  /\ pc = "met_begin"
  /\ \E nMET \in 0..MaxMET, nSHT \in 0..MaxMET :
       /\ \E pt \in [1..(nMET + nSHT) -> 0..MaxPt], phi \in [1..nMET -> {0, 1}] :
            pool = [h \in 1..(nMET + nSHT) |->
                      [Momentum |-> [Pt  |-> pt[h],
                                     Phi |-> IF h <= nMET THEN phi[h] ELSE 0]]]
       /\ Input = [i \in 1..nMET |-> i]
       /\ InputSHT = [i \in 1..nSHT |-> nMET + i]
  /\ nGen = 0
  /\ cv = METStart
  /\ ex = NotExecuting
  /\ allPart = NoCandidates
  /\ primary1Daughters = {}
  /\ primary2Daughters = {}
  /\ mc = MCStart(NoCandidates)

METBegin ==
  /\ pc = "met_begin"
  /\ cv' = METHead(Input, InputSHT, cv)
  /\ pc' = "met_loop"
  /\ UNCHANGED <<mcVars, pool, Input, InputSHT, nGen, ex>>

METLoop ==
  /\ pc = "met_loop"
  /\ cv.j < GetEntries(Input)
  /\ cv' = ConvertMETBody(pool, Input, InputSHT, cv)
  /\ UNCHANGED <<pc, mcVars, pool, Input, InputSHT, nGen, ex>>

METEnd ==
  /\ pc = "met_loop"
  /\ ~(cv.j < GetEntries(Input))
  /\ pc' = "met_done"
  /\ UNCHANGED <<mcVars, recVars>>

NextMET == METBegin \/ METLoop \/ METEnd

SpecMET == InitMET /\ [][NextMET]_vars

(***************************************************************************)
(* execute().  One call reads an event into the engine's candidate graph,  *)
(* lets the engine process it, creates the output collections, imports the *)
(* named arrays, runs the converters, deposits the collections and clears  *)
(* the engine and the reader.  The converters are followed above; here a   *)
(* converter fills its collections with a content that stands for "built   *)
(* from the candidates of these events": the set of the events whose       *)
(* candidates were in the graph.  ex holds                                 *)
(*   file        m_inHepMCFile is set (input from a file, else the store)  *)
(*   stream      the events not yet read: "ok", or "bad" (malformed)       *)
(*   present     the named arrays the engine's configuration produces      *)
(*   graph       the events whose candidates are in the engine's arrays    *)
(*   eventNo     the number of the event the last read was for             *)
(*   m_eventCounter, calls, status (the value returned), warnings          *)
(*   ran         the converters invoked by the running call                *)
(*   cols        the output collections of the running call                *)
(*   step        position within the running phase                         *)
(*   sink        the event store of the running call: the deposits         *)
(*   outcome     how the read of the running call ended                    *)
(*   cleared     the last call that cleared the engine and the reader      *)
(*   entryCounter  m_eventCounter when the running call began              *)
(***************************************************************************)
Arrays ==
  {"muons", "electrons", "charged", "neutral", "photons", "jets", "mets", "shts"}

\* the output collections, in the order of their deposit
Collections ==
  <<"genParticles", "genVertices", "recMuons", "recMuonsToMC",
    "recElectrons", "recElectronsToMC", "recCharged", "recChargedToMC",
    "recNeutral", "recNeutralToMC", "recPhotons", "recPhotonsToMC",
    "recJets", "recJetsToMC", "recBTags", "recJetsToBTags",
    "recTauTags", "recJetsToTauTags", "recMETs">>

\* faulty variant: ConvertMET is called when the missing-energy array exists
ConvertersMETAlone ==
  <<[fn |-> "ConvertMCParticles", needs |-> {},
     fills |-> {"genParticles", "genVertices"}],
    [fn |-> "ConvertTracks", needs |-> {"muons"},
     fills |-> {"recMuons", "recMuonsToMC"}],
    [fn |-> "ConvertTracks", needs |-> {"electrons"},
     fills |-> {"recElectrons", "recElectronsToMC"}],
    [fn |-> "ConvertTracks", needs |-> {"charged"},
     fills |-> {"recCharged", "recChargedToMC"}],
    [fn |-> "ConvertTowers", needs |-> {"neutral"},
     fills |-> {"recNeutral", "recNeutralToMC"}],
    [fn |-> "ConvertTowers", needs |-> {"photons"},
     fills |-> {"recPhotons", "recPhotonsToMC"}],
    [fn |-> "ConvertJets", needs |-> {"jets"},
     fills |-> {"recJets", "recJetsToMC", "recBTags", "recJetsToBTags",
                "recTauTags", "recJetsToTauTags"}],
    [fn |-> "ConvertMET", needs |-> {"mets"},
     fills |-> {"recMETs"}]>>

\* the converter calls of execute(), in order: the arrays a call needs and
\* the collections it fills (the full candidate array always exists)
Converters ==
  <<[fn |-> "ConvertMCParticles", needs |-> {},
     fills |-> {"genParticles", "genVertices"}],
    [fn |-> "ConvertTracks", needs |-> {"muons"},
     fills |-> {"recMuons", "recMuonsToMC"}],
    [fn |-> "ConvertTracks", needs |-> {"electrons"},
     fills |-> {"recElectrons", "recElectronsToMC"}],
    [fn |-> "ConvertTracks", needs |-> {"charged"},
     fills |-> {"recCharged", "recChargedToMC"}],
    [fn |-> "ConvertTowers", needs |-> {"neutral"},
     fills |-> {"recNeutral", "recNeutralToMC"}],
    [fn |-> "ConvertTowers", needs |-> {"photons"},
     fills |-> {"recPhotons", "recPhotonsToMC"}],
    [fn |-> "ConvertJets", needs |-> {"jets"},
     fills |-> {"recJets", "recJetsToMC", "recBTags", "recJetsToBTags",
                "recTauTags", "recJetsToTauTags"}],
    [fn |-> "ConvertMET", needs |-> {"mets", "shts"},
     fills |-> {"recMETs"}]>>

MaxCalls == MaxEvents + 1

\* a collection: the call that created it, what it was filled from, how often
\* it was deposited, and whether it was written after a deposit
NewCollection(call) ==
  [made |-> call, content |-> {}, puts |-> 0, writtenAfterPut |-> FALSE]

NoCollections == [c \in Range(Collections) |-> NewCollection(0)]

ExecStart(file, stream, present) ==
  [phase |-> "execute", file |-> file, stream |-> stream, present |-> present,
   graph |-> {}, eventNo |-> 0, m_eventCounter |-> 0, calls |-> 0,
   status |-> "none", warnings |-> 0, ran |-> {}, cols |-> NoCollections,
   step |-> 0, sink |-> <<>>, cleared |-> 0, outcome |-> "none",
   entryCounter |-> 0]

\* what every call starts with: the event store of the new event is empty
Enter(e) ==
  [e EXCEPT !.calls = @ + 1, !.warnings = 0, !.ran = {}, !.sink = <<>>,
            !.cols = NoCollections, !.status = "running",
            !.entryCounter = e.m_eventCounter]

\* "End of file reached": the value returned
EndOfFile(e) == [e EXCEPT !.status = "SUCCESS", !.outcome = "eof"]

\* faulty variant: the event is counted before the read is tested
NotReadyCounted(e, residue) ==
  [e EXCEPT !.stream = Tail(@), !.eventNo = @ + 1, !.m_eventCounter = @ + 1,
            !.graph = @ \cup residue, !.status = "FAILURE",
            !.outcome = "notready"]

\* the read did not complete the event: the candidates it read so far stay
\* in the engine's arrays, and the call returns
NotReady(e, residue) ==
  [e EXCEPT !.stream = Tail(@), !.eventNo = @ + 1,
            !.graph = @ \cup residue, !.status = "FAILURE",
            !.outcome = "notready"]

\* the read completed the event: its candidates were added to the arrays
Ready(e) ==
  [e EXCEPT !.stream = Tail(@), !.eventNo = @ + 1,
            !.graph = @ \cup {e.eventNo + 1}, !.outcome = "ready"]

\* one warning per named array that ImportArray did not find
AbsentWarnings(present) == Cardinality(Arrays \ present)

\* the counter, the engine's task, the fresh collections, the imports
Process(e) ==
  [e EXCEPT !.m_eventCounter = @ + 1,
            !.cols = [c \in Range(Collections) |-> NewCollection(e.calls)],
            !.warnings = @ + AbsentWarnings(e.present),
            !.step = 1]

\* faulty variant: one missing array stops the converters that follow
InvokedUntilMissing(present, k) ==
  \A i \in 1..k : Converters[i].needs \subseteq present

\* the test in front of converter call k
Invoked(present, k) == Converters[k].needs \subseteq present

\* converter call k of the running call
Convert(e, k) ==
  IF ~Invoked(e.present, k) THEN [e EXCEPT !.step = @ + 1]
  ELSE [e EXCEPT !.step = @ + 1,
                 !.ran = @ \cup {k},
                 !.cols = [c \in DOMAIN @ |->
                            IF c \in Converters[k].fills
                            THEN [@[c] EXCEPT !.content = e.graph,
                                              !.writtenAfterPut = @ \/ e.cols[c].puts > 0]
                            ELSE @[c]]]

\* put number k: the collection goes to the event store
Put(e, k) ==
  [e EXCEPT !.step = @ + 1,
            !.cols[Collections[k]].puts = @ + 1,
            !.sink = Append(@, [name |-> Collections[k],
                                content |-> e.cols[Collections[k]].content,
                                made |-> e.cols[Collections[k]].made,
                                ran |-> e.ran])]

\* m_Delphes->Clear(), m_HepMCReader->Clear(), and the value returned
Clear(e) ==
  [e EXCEPT !.graph = {}, !.status = "SUCCESS", !.cleared = e.calls]

\* faulty variant: the engine is cleared before the converters run
PhaseAfterClearFirst(phase) ==
  CASE phase = "ex_process" -> "ex_clear"
    [] phase = "ex_clear"   -> "ex_convert"
    [] phase = "ex_convert" -> "ex_put"
    [] phase = "ex_put"     -> "ex_idle"

\* the order of the phases of a call that read its event
PhaseAfter(phase) ==
  CASE phase = "ex_process" -> "ex_convert"
    [] phase = "ex_convert" -> "ex_put"
    [] phase = "ex_put"     -> "ex_clear"
    [] phase = "ex_clear"   -> "ex_idle"

InitExec ==
  /\ pc = "ex_idle"
  /\ \E file \in BOOLEAN, present \in SUBSET Arrays :
       \E stream \in UNION {[1..n -> {"ok", "bad"}] : n \in 0..MaxEvents} :
          ex = ExecStart(file, stream, present)
  /\ allPart = NoCandidates
  /\ primary1Daughters = {}
  /\ primary2Daughters = {}
  /\ mc = MCStart(NoCandidates)
  /\ pool = <<>>
  /\ Input = <<>>
  /\ InputSHT = <<>>
  /\ nGen = 0
  /\ cv = [j |-> 0]

execVars == <<mcVars, pool, Input, InputSHT, nGen, cv>>

\* a call when the file is at its end
ExecuteEndOfFile ==
  /\ pc = "ex_idle"
  /\ ex.calls < MaxCalls
  /\ ex.file
  /\ ex.stream = <<>>
  /\ ex' = EndOfFile(Enter(ex))
  /\ UNCHANGED <<pc, execVars>>

\* a call whose read does not complete the event (isEventReady is false)
ExecuteNotReady ==
  /\ pc = "ex_idle"
  /\ ex.calls < MaxCalls
  /\ ex.stream # <<>>
  /\ Head(ex.stream) = "bad"
  /\ \E residue \in {{}, {ex.eventNo + 1}} : ex' = NotReady(Enter(ex), residue)
  /\ UNCHANGED <<pc, execVars>>

\* a call whose read completes the event
ExecuteReady ==
  /\ pc = "ex_idle"
  /\ ex.calls < MaxCalls
  /\ ex.stream # <<>>
  /\ Head(ex.stream) = "ok"
  /\ ex' = Ready(Enter(ex))
  /\ pc' = "ex_process"
  /\ UNCHANGED execVars

ExecuteProcess ==
  /\ pc = "ex_process"
  /\ ex' = Process(ex)
  /\ pc' = PhaseAfter(pc)
  /\ UNCHANGED execVars

ExecuteConvert ==
  /\ pc = "ex_convert"
  /\ LET done == Convert(ex, ex.step)
     IN  IF done.step > Len(Converters)
         THEN ex' = [done EXCEPT !.step = 1] /\ pc' = PhaseAfter(pc)
         ELSE ex' = done /\ pc' = pc
  /\ UNCHANGED execVars

ExecutePut ==
  /\ pc = "ex_put"
  /\ LET done == Put(ex, ex.step)
     IN  IF done.step > Len(Collections)
         THEN ex' = [done EXCEPT !.step = 1] /\ pc' = PhaseAfter(pc)
         ELSE ex' = done /\ pc' = pc
  /\ UNCHANGED execVars

ExecuteClear ==
  /\ pc = "ex_clear"
  /\ ex' = Clear(ex)
  /\ pc' = PhaseAfter(pc)
  /\ UNCHANGED execVars

NextExec ==
  \/ ExecuteEndOfFile
  \/ ExecuteNotReady
  \/ ExecuteReady
  \/ ExecuteProcess
  \/ ExecuteConvert
  \/ ExecutePut
  \/ ExecuteClear

SpecExec == InitExec /\ [][NextExec]_vars

(***************************************************************************)
(* Properties of ConvertMCParticles.                                       *)
(***************************************************************************)
MCDone == pc = "mc_done"

\* the same array with the index order reversed, all ranges renumbered
Reverse(Inp) ==
  LET n == GetEntries(Inp)
      flip(i) == IF i = -1 THEN -1 ELSE n - 1 - i
  IN  [c \in DOMAIN Inp |->
         LET o == Inp[n - 1 - c]
         IN  [M1 |-> flip(o.M2), M2 |-> flip(o.M1),
              D1 |-> flip(o.D2), D2 |-> flip(o.D1),
              Position |-> o.Position]]

\* the candidates' ends attached to each vertex object, candidates renamed by ren
Grouping(st, n, reversed) ==
  LET ren(c) == IF reversed THEN n - 1 - c ELSE c
  IN  { {<<ren(c), "start">> : c \in {x \in DOMAIN st.particles :
                                          st.particles[x].StartVertex = v}}
        \cup {<<ren(c), "end">> : c \in {x \in DOMAIN st.particles :
                                          st.particles[x].EndVertex = v}} :
        v \in DOMAIN st.vertices }

Reused(st, j, end) ==
  /\ j \in DOMAIN st.particles
  /\ IF end = "start"
     THEN /\ st.particles[j].StartVertex # NoVertex
          /\ st.vertices[st.particles[j].StartVertex].origin # <<"production", j>>
     ELSE /\ st.particles[j].EndVertex # NoVertex
          /\ st.vertices[st.particles[j].EndVertex].origin # <<"decay", j>>

(* C1: on an array whose parent and child ranges name each other, every    *)
(* parent of a candidate ends on the vertex object the candidate starts    *)
(* on, so that a production/decay point has one vertex object.             *)
C1_OneVertexPerPoint ==
  (MCDone /\ Consistent(allPart)) =>
     \A c \in DOMAIN allPart : \A p \in MothersOf(allPart, c) :
        /\ mc.particles[c].StartVertex # NoVertex
        /\ mc.particles[p].EndVertex = mc.particles[c].StartVertex

(* C2: converting the array and converting the index-reversed array give   *)
(* the same number of vertices and the same grouping of candidate ends     *)
(* onto vertices.                                                          *)
C2_OrderIndependent ==
  (MCDone /\ Consistent(allPart)) =>
     LET n == GetEntries(allPart)
         rev == MCRun(Reverse(allPart))
     IN  /\ GetEntries(mc.vertices) = GetEntries(rev.vertices)
         /\ Grouping(mc, n, FALSE) = Grouping(rev, n, TRUE)

(* C3: the start vertex of an output particle, created or reused, lies at  *)
(* the candidate's own position, and its end vertex, created or reused,    *)
(* lies at the position of the candidate's first child D1.                 *)
C3_VertexPoints ==
  \A j \in DOMAIN mc.particles :
     /\ mc.particles[j].StartVertex # NoVertex =>
          mc.vertices[mc.particles[j].StartVertex].Position = allPart[j].Position
     /\ mc.particles[j].EndVertex # NoVertex =>
          /\ allPart[j].D1 # -1
          /\ mc.vertices[mc.particles[j].EndVertex].Position
               = allPart[allPart[j].D1].Position

C3_Witness ==
  /\ MCDone
  /\ \E j \in DOMAIN mc.particles : Reused(mc, j, "start")
  /\ \E j \in DOMAIN mc.particles : Reused(mc, j, "end")
  /\ \E v \in DOMAIN mc.vertices, w \in DOMAIN mc.vertices :
        mc.vertices[v].Position # mc.vertices[w].Position

(***************************************************************************)
(* Properties of ConvertTracks.                                            *)
(***************************************************************************)
TracksDone == pc = "trk_done"

Count(seq, Test(_)) == Cardinality({k \in DOMAIN seq : Test(seq[k])})

(* C4: an unmatched track (no related candidate, or the first one's index  *)
(* outside the generated particles) adds no record to the association      *)
(* collection: the collection holds one record per Matched track and none  *)
(* per Unmatched track.                                                    *)
C4_NoAssociationForUnmatched ==
  LET IsMatched(p) == p.Bits = "kMatched"
  IN  TracksDone => Len(cv.asc) = Count(cv.colParticles, IsMatched)

(***************************************************************************)
(* Properties of ConvertTowers.                                            *)
(***************************************************************************)
InCollection(id, size) == id \in 0..(size - 1)

\* the related candidates reached from tower k through its clusters
TowerReached(k) ==
  UNION {Range(pool[c].Candidates) : c \in Range(pool[Input[k + 1]].Candidates)}

\* the number of links tower k has to candidates outside the collection
TowerMisses(k) ==
  LET links == TowerLinks(pool, pool[Input[k + 1]])
  IN  Cardinality({i \in 1..Len(links) : ~InCollection(RefId(pool, links[i]), nGen)})

RECURSIVE SumTo(_, _)
SumTo(F(_), n) == IF n = 0 THEN 0 ELSE F(n - 1) + SumTo(F, n - 1)

(* C5: a converted tower has exactly one association per distinct index    *)
(* inside the generated particles reached through its clusters; every link *)
(* to an index outside is skipped with one warning and suppresses nothing. *)
C5_TowerAssociations ==
  /\ pc \in {"twr_loop", "twr_done"} =>
       \A k \in 0..(cv.j - 1) :
          LET mine == {i \in DOMAIN cv.asc : cv.asc[i].Rec = k}
              want == {RefId(pool, r) : r \in {x \in TowerReached(k) :
                                                InCollection(RefId(pool, x), nGen)}}
          IN  /\ {cv.asc[i].Sim : i \in mine} = want
              /\ Cardinality(mine) = Cardinality(want)
  /\ pc \in {"twr_loop", "twr_done"} =>
       /\ cv.warnings = SumTo(TowerMisses, cv.j)
       /\ \A i \in DOMAIN cv.asc : cv.asc[i].Rec \in 0..(cv.j - 1)

\* a tower with two clusters reaching the same generated particle, one of them
\* also reaching a candidate outside the collection, and an association made
C5_Witness ==
  /\ pc = "twr_done"
  /\ \E k \in 0..(cv.j - 1) :
        LET clusters == pool[Input[k + 1]].Candidates
        IN  /\ Len(clusters) >= 2
            /\ \E r \in Range(pool[clusters[1]].Candidates)
                      \cap Range(pool[clusters[2]].Candidates) :
                  /\ InCollection(RefId(pool, r), nGen)
                  /\ \E i \in DOMAIN cv.asc :
                        cv.asc[i] = [Rec |-> k, Sim |-> RefId(pool, r)]
            /\ TowerMisses(k) > 0

(***************************************************************************)
(* Properties of ConvertJets and findJetPartMC.                            *)
(***************************************************************************)
JetsDone == pc = "jet_done"

JetsRunning == pc \in {"jet_loop", "jet_constituents", "jet_done"}

Constituents(k) == pool[Input[k + 1]].Candidates

Related(S) == UNION {Range(pool[h].Candidates) : h \in S}

Intermediate(h) == ~InCollection(RefId(pool, h), nGen)

\* the candidates whose relations the walk follows: the constituents, and
\* every intermediate candidate related to a candidate already in the set
RECURSIVE Followed(_, _)
Followed(S, rounds) ==
  IF rounds = 0 THEN S
  ELSE Followed(S \cup {r \in Related(S) : Intermediate(r)}, rounds - 1)

\* the reference reachability set of jet k
JetReference(k) ==
  {RefId(pool, r) : r \in {x \in Related(Followed(Range(Constituents(k)), Len(pool))) :
                             ~Intermediate(x)}}

JetResolved(k) == {cv.asc[i].Sim : i \in {x \in DOMAIN cv.asc : cv.asc[x].Rec = k}}

(* C6: the generated particles associated with a converted jet are exactly *)
(* its reference reachability set, one association each; the resolver is   *)
(* only ever called below the constituents on intermediate candidates.     *)
C6_JetAssociations ==
  JetsRunning =>
    /\ \A k \in 0..(cv.j - 1) :
         /\ JetResolved(k) = JetReference(k)
         /\ Cardinality({i \in DOMAIN cv.asc : cv.asc[i].Rec = k})
              = Cardinality(JetReference(k))
    /\ \A i \in 2..Len(cv.stack) : Intermediate(cv.stack[i].cand)
    /\ \A i \in DOMAIN cv.asc : cv.asc[i].Rec \in 0..(cv.j - 1)

\* a jet with two constituents that reach the same generated particle, one of
\* them through an intermediate candidate, and one association made for it
C6_Witness ==
  /\ JetsDone
  /\ \E k \in 0..(cv.j - 1) :
       \E c \in Range(Constituents(k)), m \in Range(Constituents(k)), g \in DOMAIN pool :
          /\ c # m
          /\ m \in Range(pool[c].Candidates)
          /\ Intermediate(m)
          /\ g \in Range(pool[m].Candidates)
          /\ ~Intermediate(g)
          /\ JetResolved(k) = {RefId(pool, g)}
          /\ Cardinality({i \in DOMAIN cv.asc : cv.asc[i].Rec = k}) = 1

\* the candidates with link i of candidate c led through a new pass-through
\* candidate whose identifier lies above all others
InsertHop(pl, c, i) ==
  Append([pl EXCEPT ![c].Candidates[i] = Len(pl) + 1],
         [UniqueID |-> Len(pl) + 1, Candidates |-> <<pl[c].Candidates[i]>>])

DirectLinks(k) ==
  {l \in Range(Constituents(k)) \X (1..Len(pool)) :
     /\ l[2] <= Len(pool[l[1]].Candidates)
     /\ ~Intermediate(pool[l[1]].Candidates[l[2]])}

(* C7: leading a direct link of a constituent to a generated particle      *)
(* through one new pass-through candidate leaves the resolved set of the   *)
(* jet unchanged.                                                          *)
C7_HopStable ==
  JetsRunning =>
    \A k \in 0..(cv.j - 1) : \A l \in DirectLinks(k) :
       Resolve(InsertHop(pool, l[1], l[2]), nGen, Constituents(k)).idRefMCPart
         = JetResolved(k)

C7_Witness ==
  /\ JetsDone
  /\ \E k \in 0..(cv.j - 1) : \E l \in DirectLinks(k) :
       /\ RefId(pool, pool[l[1]].Candidates[l[2]]) \in JetResolved(k)
       /\ Len(Constituents(k)) >= 2

(* C8: on an acyclic relation graph the resolver terminates: the call      *)
(* stack never holds more frames than there are candidates, and the        *)
(* conversion of the jets reaches its end.                                 *)
C8_Terminates ==
  /\ [](Len(pool) > 0 /\ JetsRunning => Len(cv.stack) < Len(pool))
  /\ <>JetsDone

\* three calls deep, the innermost on a candidate without relations
C8_Witness ==
  /\ pc = "jet_constituents"
  /\ Len(cv.stack) >= 3
  /\ pool[Top(cv.stack).cand].Candidates = <<>>

\* the branches of the walk from h that end on a candidate without relations
RECURSIVE EmptyBranches(_, _)
EmptyBranches(h, fuel) ==
  IF pool[h].Candidates = <<>> THEN 1
  ELSE IF fuel = 0 THEN 0
  ELSE LET rel == pool[h].Candidates
           below(i) == IF Intermediate(rel[i + 1])
                       THEN EmptyBranches(rel[i + 1], fuel - 1) ELSE 0
       IN  SumTo(below, Len(rel))

JetEmptyBranches(k) ==
  LET cs == Constituents(k)
      each(i) == EmptyBranches(cs[i + 1], Len(pool))
  IN  SumTo(each, Len(cs))

AtNoRelation ==
  /\ pc = "jet_constituents"
  /\ cv.stack # <<>>
  /\ pool[Top(cv.stack).cand].Candidates = <<>>

(* C9: a call of the resolver on a candidate without related candidates    *)
(* adds no index, issues exactly one warning and returns without           *)
(* descending; the conversion goes on with the other constituents and the  *)
(* later jets (it is never stuck before its end), and the warnings of the  *)
(* converted jets count the branches that ended on such a candidate.       *)
C9_NoRelationBranch ==
  /\ [][AtNoRelation =>
          /\ cv'.warnings = cv.warnings + 1
          /\ cv'.idRefMCPart = cv.idRefMCPart
          /\ cv'.stack = Pop(cv.stack)
          /\ cv'.asc = cv.asc
          /\ cv'.j = cv.j
          /\ cv'.it = cv.it
          /\ pc' = pc]_vars
  /\ [](JetsRunning /\ ~JetsDone => ENABLED NextJets)
  /\ [](pc \in {"jet_loop", "jet_done"} =>
          cv.warnings = SumTo(JetEmptyBranches, cv.j))

\* a jet whose only constituent has no relation got no association, and a
\* later jet of the same array was resolved
C9_Witness ==
  /\ JetsDone
  /\ cv.warnings >= 1
  /\ \E k \in 0..(cv.j - 2) :
       /\ Len(Constituents(k)) = 1
       /\ pool[Constituents(k)[1]].Candidates = <<>>
       /\ JetResolved(k) = {}
       /\ JetResolved(k + 1) # {}

(***************************************************************************)
(* Properties of ConvertMET.                                               *)
(***************************************************************************)
METDone == pc = "met_done"

\* C10: when ConvertMET has finished there is one MET output per entry of the
\* missing-energy array; if the two arrays differ in length every output has
\* ScalarSum = -1 and exactly one warning was issued, whatever the number of
\* entries; if the lengths are equal output j has the transverse momentum of
\* entry j of the scalar-sum array as its ScalarSum and no warning was issued.
C10_METScalarSum ==
  METDone =>
    /\ Len(cv.colMET) = Len(Input)
    /\ IF Len(Input) # Len(InputSHT)
         THEN /\ \A i \in DOMAIN cv.colMET : cv.colMET[i].ScalarSum = -1
              /\ cv.warnings = 1
         ELSE /\ \A i \in DOMAIN cv.colMET :
                   cv.colMET[i].ScalarSum = pool[InputSHT[i]].Momentum.Pt
              /\ cv.warnings = 0

\* three missing-energy entries beside two scalar sums, converted
C10_Witness ==
  /\ METDone
  /\ Len(Input) = 3
  /\ Len(InputSHT) = 2
  /\ Len(cv.colMET) = 3
  /\ cv.warnings = 1

(***************************************************************************)
(* Properties of the pre-pass and of the slots of ConvertMCParticles.      *)
(***************************************************************************)
MCRunning == pc \in {"mc_loop", "mc_done"}

\* colliding particles 0 and 1, each declaring the daughters {2,3}, candidate
\* 2 naming index 0 as its only parent, candidate 3 a daughter as well (its
\* parent range starts at index 0)
BeamPairScenario ==
  /\ GetEntries(allPart) >= 4
  /\ \A b \in {0, 1} :
       allPart[b].M1 = -1 /\ allPart[b].D1 = 2 /\ allPart[b].D2 = 3
  /\ allPart[2].M1 = 0 /\ allPart[2].M2 = 0
  /\ allPart[3].M1 = 0

\* C11, as stated: in the scenario the known daughters of beam 1 contain
\* candidate 3 and the main pass propagates from beam 1 to candidate 3,
\* whatever the parent range of candidate 3 says.
C11_AsStated ==
  MCRunning /\ BeamPairScenario =>
     /\ 3 \in primary2Daughters
     /\ 3 \in PropagationTargets(allPart, primary1Daughters, primary2Daughters, 1)

\* C11, amended: in the scenario the known daughters of beam 1 are the
\* candidates whose own parent range includes index 1: candidate 3 when its
\* parent range lists 0 and 1, and never candidate 2; the main pass
\* propagates from beam 1 to exactly these, and once beam 1 is converted the
\* start slot of candidate 3 is set.
C11_KnownDaughters ==
  MCRunning /\ BeamPairScenario =>
     /\ 2 \notin primary2Daughters
     /\ 3 \in primary2Daughters <=> 1 \in MothersOf(allPart, 3)
     /\ PropagationTargets(allPart, primary1Daughters, primary2Daughters, 1)
          = primary2Daughters
     /\ 1 \in MothersOf(allPart, 3) /\ mc.j >= 2 => mc.vec[3].first \in {0, 1}

\* the scenario with the parent range of candidate 3 intact, beam 1 converted
C11_Witness ==
  /\ MCRunning
  /\ BeamPairScenario
  /\ MothersOf(allPart, 3) = {0, 1}
  /\ primary2Daughters = {3}
  /\ mc.j >= 2

(***************************************************************************)
(* Properties of the classification of the output particles.               *)
(***************************************************************************)
ParticleStatus == {"kBeam", "kStable", "kDecayed", "kMatched", "kUnmatched"}

\* the output particles of the running converter that exist in this state
OutputParticles ==
  Range(mc.particles)
    \cup (IF pc \in {"trk_loop", "trk_done", "twr_loop", "twr_done"}
          THEN Range(cv.colParticles) ELSE {})

\* C12: in every state of a conversion, every output particle that exists
\* (generated particle, track or tower) carries a classification out of
\* {Beam, Stable, Decayed, Matched, Unmatched}: it has one from its creation
\* on.
C12_Classified == \A p \in OutputParticles : p.Bits \in ParticleStatus

\* C13: generated output particle j is Beam if candidate j has no parent
\* range, otherwise Stable if it has no child range, otherwise Decayed; a
\* candidate with neither parents nor children is Beam.
C13_GeneratedStatus ==
  \A j \in DOMAIN mc.particles :
     LET noParents == allPart[j].M1 = -1
         noChildren == allPart[j].D1 = -1
         bits == mc.particles[j].Bits
     IN  /\ noParents => bits = "kBeam"
         /\ ~noParents /\ noChildren => bits = "kStable"
         /\ ~noParents /\ ~noChildren => bits = "kDecayed"
         /\ bits \in {"kBeam", "kStable", "kDecayed"}

\* a converted event with a colliding particle without children, a decayed
\* and a stable particle
C13_Witness ==
  /\ MCDone
  /\ \E a \in DOMAIN mc.particles, b \in DOMAIN mc.particles, c \in DOMAIN mc.particles :
       /\ allPart[a].M1 = -1 /\ allPart[a].D1 = -1 /\ mc.particles[a].Bits = "kBeam"
       /\ mc.particles[b].Bits = "kDecayed"
       /\ mc.particles[c].Bits = "kStable"

\* C14: the conversion of an array of N candidates emits N generated
\* particles, particle j (the particle an identifier j + 1 resolves to) being
\* built from candidate j: while the loop runs the particles 0..j-1 exist, at
\* its end the particles 0..N-1, each with the position and the status of
\* the candidate of its index.
C14_IndexOrder ==
  MCRunning =>
    /\ DOMAIN mc.particles = 0..(mc.j - 1)
    /\ MCDone => mc.j = GetEntries(allPart)
    /\ \A u \in 1..mc.j :
         /\ mc.particles[u - 1].Vertex = allPart[u - 1].Position
         /\ (mc.particles[u - 1].Bits = "kBeam") = (allPart[u - 1].M1 = -1)
         /\ (mc.particles[u - 1].Bits = "kStable")
              = (allPart[u - 1].M1 # -1 /\ allPart[u - 1].D1 = -1)

\* a converted array of four candidates whose first and last differ in
\* position and in status
C14_Witness ==
  /\ MCDone
  /\ GetEntries(allPart) = 4
  /\ GetEntries(mc.particles) = 4
  /\ mc.particles[0].Vertex # mc.particles[3].Vertex
  /\ mc.particles[0].Bits # mc.particles[3].Bits

(***************************************************************************)
(* Properties of execute().                                                *)
(***************************************************************************)
\* the running call read its event and has returned
Converted == pc = "ex_idle" /\ ex.calls > 0 /\ ex.cleared = ex.calls

Deposits(name) == {i \in DOMAIN ex.sink : ex.sink[i].name = name}

\* C15: a call that read its event, whatever named arrays are absent, has
\* issued one warning per absent array, has invoked exactly the converters
\* whose arrays exist (all others of them), has deposited every collection
\* once, the collections of the skipped converters empty, and has returned
\* SUCCESS.
C15_AbsentArrays ==
  Converted =>
    /\ ex.warnings = Cardinality(Arrays \ ex.present)
    /\ ex.ran = {k \in DOMAIN Converters : Converters[k].needs \subseteq ex.present}
    /\ \A c \in Range(Collections) : Cardinality(Deposits(c)) = 1
    /\ \A k \in DOMAIN Converters : \A i \in DOMAIN ex.sink :
         ex.sink[i].name \in Converters[k].fills =>
            IF k \in ex.ran THEN ex.sink[i].content # {}
                            ELSE ex.sink[i].content = {}
    /\ ex.status = "SUCCESS"

\* an event converted without the muon and the jet arrays, the photons kept
C15_Witness ==
  /\ Converted
  /\ "muons" \notin ex.present
  /\ "jets" \notin ex.present
  /\ "photons" \in ex.present
  /\ ex.warnings >= 2
  /\ Len(ex.sink) = Len(Collections)

ExecuteReturned == pc = "ex_idle" /\ ex.calls > 0

\* a further call can be attempted (the run has events left, or reads a file)
CanCallAgain ==
  ENABLED (ExecuteEndOfFile \/ ExecuteNotReady \/ ExecuteReady)

\* no converter was invoked, nothing was deposited, the counter stands
NoConversion ==
  /\ ex.ran = {}
  /\ ex.sink = <<>>
  /\ ex.m_eventCounter = ex.entryCounter

\* C16, as stated: a call that met a malformed event or the end of the input
\* has returned FAILURE and has run no conversion: no converter invoked, no
\* collection deposited, the event counter not advanced.
C16_AsStated ==
  ExecuteReturned /\ ex.outcome \in {"notready", "eof"} =>
     ex.status = "FAILURE" /\ NoConversion

\* C16, amended: a call that met a malformed event has returned FAILURE, a
\* call that met the end of the file has returned SUCCESS; either has run no
\* conversion, and a further call can be attempted as long as the run goes
\* on.
C16_NoConversion ==
  ExecuteReturned /\ ex.outcome \in {"notready", "eof"} =>
     /\ ex.outcome = "notready" => ex.status = "FAILURE"
     /\ ex.outcome = "eof" => ex.status = "SUCCESS"
     /\ NoConversion
     /\ ex.calls < MaxCalls /\ (ex.file \/ ex.stream # <<>>) => CanCallAgain

\* a run that converted one event, met a malformed one and then the end of
\* the file
C16_Witness ==
  /\ ExecuteReturned
  /\ ex.outcome = "eof"
  /\ ex.calls = 3
  /\ ex.m_eventCounter = 1
  /\ ex.eventNo = 2

\* a call that read its event is under way or has returned
InEvent == ex.calls > 0 /\ ex.outcome = "ready" /\ pc # "ex_process"

\* C17: in a call that read its event, every deposited collection was
\* created by this call, is deposited at most once (exactly once when the
\* call has returned), was deposited when every converter to be invoked had
\* been invoked, and is not written after its deposit; the engine's graph is
\* cleared only when all collections are deposited.
C17_DepositOrder ==
  InEvent =>
    /\ \A c \in Range(Collections) :
         /\ ex.cols[c].made = ex.calls
         /\ Cardinality(Deposits(c)) = ex.cols[c].puts
         /\ ex.cols[c].puts <= 1
         /\ Converted => ex.cols[c].puts = 1
         /\ ~ex.cols[c].writtenAfterPut
    /\ \A i \in DOMAIN ex.sink :
         /\ ex.sink[i].made = ex.calls
         /\ ex.sink[i].ran =
              {k \in DOMAIN Converters : Converters[k].needs \subseteq ex.present}
    /\ ex.cleared = ex.calls => Len(ex.sink) = Len(Collections)
    /\ ex.cleared # ex.calls => ex.graph # {}

\* the second event of a run converted and deposited, all arrays present
C17_Witness ==
  /\ Converted
  /\ ex.calls = 2
  /\ ex.m_eventCounter = 2
  /\ ex.present = Arrays
  /\ Len(ex.sink) = Len(Collections)
  /\ ex.graph = {}

\* C18: between two calls the engine's candidate graph is empty, whatever
\* the calls before attempted, and what a call deposits is built from the
\* candidates of its own event alone.
C18_NoCarryOver ==
  /\ pc = "ex_idle" => ex.graph = {}
  /\ \A i \in DOMAIN ex.sink : ex.sink[i].content \subseteq {ex.eventNo}

(***************************************************************************)
(* Properties of the vertex slots of ConvertMCParticles.                   *)
(***************************************************************************)
\* the candidates recorded for candidate b by a pre-pass over the parent
\* ranges: those whose own parent range includes b
RecordedFor(Inp, b) ==
  {c \in DOMAIN Inp : Inp[c].M1 # -1 /\ b \in Inp[c].M1 .. Inp[c].M2}

\* the candidates the decay-vertex step of candidate p propagates to
DecayTargets(Inp, p) ==
  IF Inp[p].D1 = -1 THEN {}
  ELSE IF Inp[p].M1 = -1 THEN RecordedFor(Inp, p)
  ELSE (Inp[p].D1 .. Inp[p].D2) \cap DOMAIN Inp

\* the candidates that write the start slot of c when they are converted:
\* its propagating parents, and c itself when it has a parent range
StartWriters(Inp, c) ==
  {p \in DOMAIN Inp : c \in DecayTargets(Inp, p)}
    \cup (IF Inp[c].M1 # -1 THEN {c} ELSE {})

\* C19: the start slot of every candidate holds the first converted
\* candidate among those that write it, where a beam candidate (no parent
\* range) with a child range writes the slots of the candidates recorded for
\* it in the pre-pass, not those of its declared range, and every other
\* candidate with a child range writes the slots of [D1,D2].
C19_BeamPropagation ==
  MCRunning =>
    \A c \in DOMAIN mc.vec :
       LET done == StartWriters(allPart, c) \cap 0..(mc.j - 1)
       IN  mc.vec[c].first = IF done = {} THEN -1 ELSE SetMin(done)

\* every slot that is set in vec keeps its value in next
SlotsKept(vec, next) ==
  \A i \in DOMAIN vec :
     /\ vec[i].first # -1 => next[i].first = vec[i].first
     /\ vec[i].second # -1 => next[i].second = vec[i].second

\* C20: every slot is unset when the main loop begins, and neither the
\* production-vertex step nor the decay-vertex step of an iteration (own
\* vertex creation and propagation alike) changes a slot that is set: a slot
\* is written at most once.
C20_FirstWriterWins ==
  pc = "mc_loop" =>
    /\ mc.j = 0 => \A i \in DOMAIN mc.vec :
                      mc.vec[i].first = -1 /\ mc.vec[i].second = -1
    /\ mc.j < GetEntries(allPart) =>
         LET created == CreateParticle(allPart, mc)
             produced == ProductionVertex(allPart, created)
             decayed == DecayVertex(allPart, primary1Daughters,
                                    primary2Daughters, produced)
         IN  /\ SlotsKept(mc.vec, produced.vec)
             /\ SlotsKept(produced.vec, decayed.vec)
             /\ decayed.vec =
                  ConvertMCParticlesBody(allPart, primary1Daughters,
                                         primary2Daughters, mc).vec

\* the candidate converted last propagated to a start slot that an earlier
\* candidate had written, and the slot kept the earlier index
C20_Witness ==
  /\ pc = "mc_loop"
  /\ mc.j >= 1
  /\ allPart[mc.j - 1].D1 # -1
  /\ \E i \in DOMAIN mc.vec :
        /\ i \in PropagationTargets(allPart, primary1Daughters,
                                    primary2Daughters, mc.j - 1)
        /\ mc.vec[i].first \notin {-1, mc.j - 1}

(***************************************************************************)
(* Properties of ConvertTracks: the first related candidate decides.       *)
(***************************************************************************)
\* the pool in which every entry of the input array keeps only the first of
\* its related candidates
FirstRelatedOnly(pl, array) ==
  [h \in DOMAIN pl |->
     IF h \in Range(array) /\ Len(pl[h].Candidates) > 1
     THEN [pl[h] EXCEPT !.Candidates = SubSeq(@, 1, 1)]
     ELSE pl[h]]

\* the conversion of the entries st.j .. upto-1 of the array
RECURSIVE TracksRun(_, _, _, _, _)
TracksRun(pl, array, size, st, upto) ==
  IF st.j >= upto THEN st
  ELSE TracksRun(pl, array, size, ConvertTracksBody(pl, array, size, st), upto)

\* the records of the association collection that name track k
TrackRecords(k) == {i \in DOMAIN cv.asc : cv.asc[i].Rec = k}

(* C21: a converted track is Matched exactly when it has a related         *)
(* candidate and the identifier of the first one, minus 1, is an index of  *)
(* the generated-particle collection; a Matched track is named by exactly  *)
(* one association, which links it to the generated particle at that       *)
(* index, an Unmatched track by none; and the outcome is the one the       *)
(* converter gives when every track keeps only its first related           *)
(* candidate.                                                              *)
C21_FirstRelatedDecides ==
  pc \in {"trk_loop", "trk_done"} =>
    /\ \A k \in 0..(cv.j - 1) :
          LET related == pool[Input[k + 1]].Candidates
              valid == /\ Len(related) > 0
                       /\ InCollection(RefId(pool, related[1]), nGen)
          IN  /\ cv.colParticles[k + 1].Bits = "kMatched" <=> valid
              /\ cv.colParticles[k + 1].Bits \in {"kMatched", "kUnmatched"}
              /\ valid =>
                   /\ Cardinality(TrackRecords(k)) = 1
                   /\ \A i \in TrackRecords(k) :
                         cv.asc[i].Sim = RefId(pool, related[1])
              /\ ~valid => TrackRecords(k) = {}
    /\ cv = TracksRun(FirstRelatedOnly(pool, Input), Input, nGen,
                      RecStart, cv.j)

\* both cases with a later related candidate that would decide otherwise:
\* a Matched track whose second related candidate lies outside the
\* generated particles, and an Unmatched track whose second related
\* candidate is a generated particle
C21_Witness ==
  /\ TracksDone
  /\ \E k \in 0..(cv.j - 1) :
        LET related == pool[Input[k + 1]].Candidates
        IN  /\ Len(related) >= 2
            /\ cv.colParticles[k + 1].Bits = "kMatched"
            /\ ~InCollection(RefId(pool, related[2]), nGen)
  /\ \E k \in 0..(cv.j - 1) :
        LET related == pool[Input[k + 1]].Candidates
        IN  /\ Len(related) >= 2
            /\ cv.colParticles[k + 1].Bits = "kUnmatched"
            /\ InCollection(RefId(pool, related[2]), nGen)

(***************************************************************************)
(* Properties of ConvertMCParticles: reuse of a vertex.                    *)
(***************************************************************************)
\* particle i exists and the vertex it holds at the given end exists
HasVertex(st, i, end) ==
  /\ i \in DOMAIN st.particles
  /\ st.particles[i][end] \in DOMAIN st.vertices

(* C22: colMCParticles->at() is never called past the collection; when the *)
(* candidate about to be visited has parents and finds its start slot set, *)
(* the slot names a candidate visited strictly earlier whose particle has  *)
(* an end vertex, and that vertex becomes its start vertex; when it has    *)
(* children and finds its end slot set at its decay step, the slot names a *)
(* candidate visited strictly earlier whose particle has a start vertex,   *)
(* and that vertex becomes its end vertex.                                 *)
C22_ReuseExisting ==
  pc = "mc_loop" =>
    /\ ~mc.fault
    /\ mc.j < GetEntries(allPart) =>
         LET j == mc.j
             created == CreateParticle(allPart, mc)
             produced == ProductionVertex(allPart, created)
             decayed == DecayVertex(allPart, primary1Daughters,
                                    primary2Daughters, produced)
             start == created.vec[j].first
             end == produced.vec[j].second
         IN  /\ allPart[j].M1 # -1 /\ start # -1 =>
                  /\ start < j
                  /\ HasVertex(created, start, "EndVertex")
                  /\ produced.particles[j].StartVertex =
                       created.particles[start].EndVertex
             /\ allPart[j].D1 # -1 /\ end # -1 =>
                  /\ end < j
                  /\ HasVertex(produced, end, "StartVertex")
                  /\ decayed.particles[j].EndVertex =
                       produced.particles[end].StartVertex
             /\ ~decayed.fault

\* the candidate converted last reused both its vertices: its start vertex
\* is the decay vertex an earlier parent created, its end vertex the
\* production vertex an earlier child created
C22_Witness ==
  /\ pc = "mc_loop"
  /\ mc.j >= 1
  /\ LET k == mc.j - 1
     IN  /\ HasVertex(mc, k, "StartVertex")
         /\ HasVertex(mc, k, "EndVertex")
         /\ \E p \in 0..(k - 1) :
               mc.vertices[mc.particles[k].StartVertex].origin = <<"decay", p>>
         /\ \E c \in 0..(k - 1) :
               mc.vertices[mc.particles[k].EndVertex].origin = <<"production", c>>

(***************************************************************************)
(* Properties of ConvertJets on every identifier value.                    *)
(***************************************************************************)
(* C23: every association of a jet refers to a generated-particle index in *)
(* 0..N-1, and every index the resolver has admitted lies in 0..N-1,       *)
(* whatever the identifiers of the related candidates are, identifier 0    *)
(* (index -1) included.                                                    *)
C23_IndexInCollection ==
  JetsRunning =>
    /\ \A i \in DOMAIN cv.asc : InCollection(cv.asc[i].Sim, nGen)
    /\ \A id \in cv.idRefMCPart : InCollection(id, nGen)

(***************************************************************************)
(* Properties of execute(): the call of ConvertMET.                        *)
(***************************************************************************)
\* the ConvertMET call has been made by the running (or last) call
METConverted ==
  \E k \in ex.ran : k \in DOMAIN Converters /\ Converters[k].fn = "ConvertMET"

BothMETArrays == {"mets", "shts"} \subseteq ex.present

(* C24: ConvertMET is called only in an event where both the               *)
(* missing-energy and the scalar-sum array exist, and then it is called;   *)
(* when one of them is absent the MET collection is never written, and the *)
(* MET collection the call deposits (once) is empty.                       *)
C24_METNeedsBoth ==
  /\ METConverted => BothMETArrays
  /\ ~BothMETArrays =>
       /\ ex.cols["recMETs"].content = {}
       /\ \A i \in Deposits("recMETs") : ex.sink[i].content = {}
  /\ Converted =>
       /\ Cardinality(Deposits("recMETs")) = 1
       /\ BothMETArrays =>
            /\ METConverted
            /\ \A i \in Deposits("recMETs") : ex.sink[i].content # {}

\* an event converted with the missing-energy array but without the
\* scalar-sum array: the other converters ran, the MET deposit is empty
C24_Witness ==
  /\ Converted
  /\ "mets" \in ex.present
  /\ "shts" \notin ex.present
  /\ "muons" \in ex.present
  /\ \E i \in Deposits("recMuons") : ex.sink[i].content # {}
  /\ \E i \in Deposits("recMETs") : ex.sink[i].content = {}
  /\ ~METConverted

====
